---- MODULE Spec2Model ----
(***************************************************************************)
(* Model of Blue_Carbon_Credit.py: the Block / Blockchain ledger with its  *)
(* proof-of-work mining, the BlueCarbonToken balance map, and the          *)
(* ingestion loop that appends a project record and issues tokens for it.  *)
(***************************************************************************)
EXTENDS Integers, Sequences, FiniteSets, TLC

\* ------------------------------------------------------------------------
\* Bounds of the model
\* ------------------------------------------------------------------------
MaxBlocks == 2
MaxTime == 1
MaxNonce == 300
MaxSupply == 110
MaxBalance == 80
MaxDebt == 30

\* ------------------------------------------------------------------------
\* Program constants
\* ------------------------------------------------------------------------
\* Blockchain.difficulty: number of leading '0' characters required.
difficulty == 2

\* A hexdigest is modelled as a string of HashLen hexadecimal digits
\* (sha256 gives 64 of them; the model keeps the first HashLen).
HashLen == 3
HexBase == 16
HashSpace == 4096
HashPrime == 29
HashSeed == 5

\* The users dictionary of the script.
users == {"NCCR_Admin", "NGO_1", "Community_1"}

\* Project records: the two of sample_data and the third one that the
\* generated dashboard lists.
sample_data ==
  { [project_name |-> "Mangrove Restoration", area_ha |-> 5,
     CO2_absorbed_tonnes |-> 50, submitted_by |-> "NGO_1"],
    [project_name |-> "Seagrass Planting", area_ha |-> 3,
     CO2_absorbed_tonnes |-> 30, submitted_by |-> "Community_1"],
    [project_name |-> "Coral Reef Restoration", area_ha |-> 2,
     CO2_absorbed_tonnes |-> 20, submitted_by |-> "NGO_1"] }

\* The payload of the genesis block.
GenesisData == [text |-> "Genesis Block"]

\* The previous_hash of the genesis block: the one-character string "0".
GenesisPrev == <<0>>

\* Readings of datetime.now().
Times == 0..MaxTime

\* Amounts the token API is driven with.
IssueAmounts == {-30, 0, 30, 50}
TransferAmounts == {-30, 0, 50, 100}

\* Threads that may run add_block; the script itself has only Main.
Main == 1
Threads == {1, 2}

\* hashlib.sha256 is modelled by a family of deterministic digests, one of
\* which is fixed at start-up: with nonce weight 1 every block has a nonce
\* that meets the difficulty target, with nonce weight 32 some blocks have
\* none. The code does not depend on which of the two is the case.
NonceWeights == {1, 32}

VARIABLES chain, pc, new_block, computed_hash, nonce_weight, overlapped,
          balances, total_supply, call,
          ipc, entry, submitted, credited

vars == <<chain, pc, new_block, computed_hash, nonce_weight, overlapped,
          balances, total_supply, call,
          ipc, entry, submitted, credited>>

\* overlapped records whether an add_block call has ever started while
\* another one was in progress.
ledgerVars == <<chain, pc, new_block, computed_hash, nonce_weight, overlapped>>
tokenVars == <<balances, total_supply, call>>
ingestVars == <<ipc, entry, submitted, credited>>

\* ------------------------------------------------------------------------
\* Block
\* ------------------------------------------------------------------------
\* json.dumps of a string field / of the data field, as a number.
StrCode(s) ==
  CASE s = "Genesis Block" -> 1
    [] s = "Mangrove Restoration" -> 2
    [] s = "Seagrass Planting" -> 3
    [] s = "Coral Reef Restoration" -> 4
    [] s = "NCCR_Admin" -> 5
    [] s = "NGO_1" -> 6
    [] s = "Community_1" -> 7

DataCode(d) ==
  IF "text" \in DOMAIN d
    THEN StrCode(d.text)
    ELSE 1000 * StrCode(d.project_name) + 100 * d.area_ha
         + 8 * d.CO2_absorbed_tonnes + StrCode(d.submitted_by)

\* A hex string as a number that tells "0" from "000".
RECURSIVE HexCode(_)
HexCode(h) ==
  IF h = <<>> THEN 0
  ELSE (HexBase + 1) * HexCode(SubSeq(h, 1, Len(h) - 1)) + h[Len(h)] + 1

\* hexdigest(): a number below HashSpace as HashLen hex digits.
RECURSIVE HexDigits(_, _)
HexDigits(n, len) ==
  IF len = 0 THEN <<>>
  ELSE Append(HexDigits(n \div HexBase, len - 1), n % HexBase)

\* One absorption step of the digest.
Mix(h, x) == (h * HashPrime + x) % HashSpace

\* compute_hash: the fields are serialised with sort_keys=True, that is in
\* the order data, index, nonce, previous_hash, timestamp, and digested.
\* The stored hash is not part of the input.
compute_hash(b) ==
  HexDigits(
    Mix(Mix(Mix(Mix(Mix(HashSeed, DataCode(b.data)), b.index),
                b.nonce * nonce_weight),
            HexCode(b.previous_hash)), b.timestamp),
    HashLen)

\* Block.__init__: the hash is computed from the fields on creation.
Block(index, timestamp, data, previous_hash, nonce) ==
  LET fields == [index |-> index, timestamp |-> timestamp, data |-> data,
                 previous_hash |-> previous_hash, nonce |-> nonce,
                 hash |-> <<>>]
  IN [fields EXCEPT !.hash = compute_hash(fields)]

\* The value of new_block while no add_block call is in progress.
NoBlock == [index |-> -1, timestamp |-> 0, data |-> GenesisData,
            previous_hash |-> <<>>, nonce |-> 0, hash |-> <<>>]

\* ------------------------------------------------------------------------
\* Blockchain
\* ------------------------------------------------------------------------
\* create_genesis_block, as called by Blockchain.__init__ on the empty chain.
\* (variant: the genesis block is numbered 1)
create_genesis_block_indexOne(c, now) ==
  Append(c, Block(1, now, GenesisData, GenesisPrev, 0))

create_genesis_block(c, now) ==
  Append(c, Block(0, now, GenesisData, GenesisPrev, 0))

\* last_block: chain[-1].
last_block(c) == c[Len(c)]

\* computed_hash.startswith('0' * Blockchain.difficulty)
\* (variant: one zero too few)
StartsWithZeros_oneShort(h) ==
  /\ Len(h) >= difficulty - 1
  /\ \A i \in 1..(difficulty - 1) : h[i] = 0

\* (variant: one zero too many)
StartsWithZeros_oneMore(h) ==
  /\ Len(h) >= difficulty + 1
  /\ \A i \in 1..(difficulty + 1) : h[i] = 0

StartsWithZeros(h) ==
  /\ Len(h) >= difficulty
  /\ \A i \in 1..difficulty : h[i] = 0

\* add_block up to the first test of the loop in proof_of_work: the new
\* block is built from last_block, its nonce is reset and hashed.
\* (variant: links to chain[0] instead of chain[-1])
NewBlock_firstBlock(c, data, now) ==
  Block(c[1].index + 1, now, data, c[1].hash, 0)

\* (variant: the index is the length of the chain counted from 1)
NewBlock_lenIndex(c, data, now) ==
  Block(Len(c) + 1, now, data, last_block(c).hash, 0)

NewBlock(c, data, now) ==
  Block(last_block(c).index + 1, now, data, last_block(c).hash, 0)

add_block_call(t, data, now) ==
  /\ pc[t] = "idle"
  /\ Len(chain) <= MaxBlocks
  /\ new_block' = [new_block EXCEPT ![t] =
                     [NewBlock(chain, data, now) EXCEPT !.nonce = 0]]
  /\ computed_hash' = [computed_hash EXCEPT ![t] = compute_hash(new_block'[t])]
  /\ pc' = [pc EXCEPT ![t] = "mining"]
  /\ overlapped' = (overlapped \/ \E u \in Threads \ {t} : pc[u] = "mining")
  /\ UNCHANGED <<chain, nonce_weight>>

\* One iteration of the while loop of proof_of_work.
\* (variant: the nonce advances by two)
proof_of_work_step_skip(t) ==
  /\ pc[t] = "mining"
  /\ ~StartsWithZeros(computed_hash[t])
  /\ new_block[t].nonce < MaxNonce
  /\ new_block' = [new_block EXCEPT ![t].nonce = @ + 2]
  /\ computed_hash' = [computed_hash EXCEPT ![t] = compute_hash(new_block'[t])]
  /\ UNCHANGED <<chain, pc, nonce_weight, overlapped>>

proof_of_work_step(t) ==
  /\ pc[t] = "mining"
  /\ ~StartsWithZeros(computed_hash[t])
  /\ new_block[t].nonce < MaxNonce
  /\ new_block' = [new_block EXCEPT ![t].nonce = @ + 1]
  /\ computed_hash' = [computed_hash EXCEPT ![t] = compute_hash(new_block'[t])]
  /\ UNCHANGED <<chain, pc, nonce_weight, overlapped>>

\* proof_of_work returns; add_block stores the hash and appends the block.
\* (variant: the hash computed at construction is kept)
MinedBlock_keepHash(b, h) == b

MinedBlock(b, h) == [b EXCEPT !.hash = h]

\* (variant: the block is inserted at the head of the list)
add_block_append_front(t) ==
  /\ pc[t] = "mining"
  /\ StartsWithZeros(computed_hash[t])
  /\ chain' = <<MinedBlock(new_block[t], computed_hash[t])>> \o chain
  /\ new_block' = [new_block EXCEPT ![t] = NoBlock]
  /\ computed_hash' = [computed_hash EXCEPT ![t] = <<>>]
  /\ pc' = [pc EXCEPT ![t] = "idle"]
  /\ UNCHANGED <<nonce_weight, overlapped>>

\* (variant: the block is re-linked to the current last block on append)
add_block_append_relink(t) ==
  /\ pc[t] = "mining"
  /\ StartsWithZeros(computed_hash[t])
  /\ chain' = Append(chain,
                 [MinedBlock(new_block[t], computed_hash[t])
                    EXCEPT !.index = last_block(chain).index + 1,
                           !.previous_hash = last_block(chain).hash])
  /\ new_block' = [new_block EXCEPT ![t] = NoBlock]
  /\ computed_hash' = [computed_hash EXCEPT ![t] = <<>>]
  /\ pc' = [pc EXCEPT ![t] = "idle"]
  /\ UNCHANGED <<nonce_weight, overlapped>>

add_block_append(t) ==
  /\ pc[t] = "mining"
  /\ StartsWithZeros(computed_hash[t])
  /\ chain' = Append(chain, MinedBlock(new_block[t], computed_hash[t]))
  /\ new_block' = [new_block EXCEPT ![t] = NoBlock]
  /\ computed_hash' = [computed_hash EXCEPT ![t] = <<>>]
  /\ pc' = [pc EXCEPT ![t] = "idle"]
  /\ UNCHANGED <<nonce_weight, overlapped>>

\* ------------------------------------------------------------------------
\* BlueCarbonToken
\* ------------------------------------------------------------------------
\* self.balances.get(user, 0)
Get(bal, user) == IF user \in DOMAIN bal THEN bal[user] ELSE 0

\* self.balances[user] = value
Put(bal, user, value) ==
  [u \in DOMAIN bal \cup {user} |-> IF u = user THEN value ELSE bal[u]]

\* sum(balances.values())
RECURSIVE SumValues(_)
SumValues(bal) ==
  IF DOMAIN bal = {} THEN 0
  ELSE LET u == CHOOSE x \in DOMAIN bal : TRUE
       IN bal[u] + SumValues([x \in DOMAIN bal \ {u} |-> bal[x]])

NoCall == [op |-> "none", user |-> "", receiver |-> "", amount |-> 0,
           result |-> ""]

\* issue: the two assignments.
\* (variant: the balance is overwritten instead of increased)
IssueBalances_overwrite(bal, user, amount) == Put(bal, user, amount)

IssueBalances(bal, user, amount) == Put(bal, user, Get(bal, user) + amount)

IssueSupply(supply, amount) == supply + amount

issue(user, amount) ==
  /\ balances' = IssueBalances(balances, user, amount)
  /\ total_supply' = IssueSupply(total_supply, amount)
  /\ call' = [op |-> "issue", user |-> user, receiver |-> user,
              amount |-> amount, result |-> "None"]

\* transfer: the test, the statements of the branch, the returned value.
\* "self.balances[sender] -= amount" reads balances[sender] first and raises
\* KeyError, before anything is written, when sender has no entry.
TransferTest(bal, sender, amount) == Get(bal, sender) >= amount

\* (variant: the receiver's balance is read before the debit)
TransferBalances_staleRead(bal, sender, receiver, amount) ==
  IF TransferTest(bal, sender, amount) /\ sender \in DOMAIN bal
    THEN LET debited == Put(bal, sender, bal[sender] - amount)
         IN Put(debited, receiver, Get(bal, receiver) + amount)
    ELSE bal

\* (variant: a refused transfer still creates the receiver's entry)
TransferBalances_touchReceiver(bal, sender, receiver, amount) ==
  IF TransferTest(bal, sender, amount) /\ sender \in DOMAIN bal
    THEN LET debited == Put(bal, sender, bal[sender] - amount)
         IN Put(debited, receiver, Get(debited, receiver) + amount)
    ELSE Put(bal, receiver, Get(bal, receiver))

TransferBalances(bal, sender, receiver, amount) ==
  IF TransferTest(bal, sender, amount) /\ sender \in DOMAIN bal
    THEN LET debited == Put(bal, sender, bal[sender] - amount)
         IN Put(debited, receiver, Get(debited, receiver) + amount)
    ELSE bal

TransferResult(bal, sender, amount) ==
  IF TransferTest(bal, sender, amount)
    THEN IF sender \in DOMAIN bal THEN "True" ELSE "KeyError"
    ELSE "False"

\* (variant: the amount is also taken off total_supply)
transfer_burn(sender, receiver, amount) ==
  /\ balances' = TransferBalances(balances, sender, receiver, amount)
  /\ call' = [op |-> "transfer", user |-> sender, receiver |-> receiver,
              amount |-> amount,
              result |-> TransferResult(balances, sender, amount)]
  /\ total_supply' = total_supply - amount

transfer(sender, receiver, amount) ==
  /\ balances' = TransferBalances(balances, sender, receiver, amount)
  /\ call' = [op |-> "transfer", user |-> sender, receiver |-> receiver,
              amount |-> amount,
              result |-> TransferResult(balances, sender, amount)]
  /\ UNCHANGED total_supply

\* ------------------------------------------------------------------------
\* The ingestion loop: for entry in sample_data
\* ------------------------------------------------------------------------
\* block = carbon_chain.add_block(entry), up to the first test of the loop.
ingest_add_block(e, now) ==
  /\ ipc = "loop"
  /\ add_block_call(Main, e, now)
  /\ ipc' = "add_block"
  /\ entry' = e
  /\ submitted' = Append(submitted, e)
  /\ UNCHANGED <<credited, tokenVars>>

\* token_system.issue(entry['submitted_by'], entry['CO2_absorbed_tonnes'])
EntryUser(e) == e.submitted_by

\* (variant: the area is credited instead of the CO2 quantity)
EntryAmount_area(e) == e.area_ha

EntryAmount(e) == e.CO2_absorbed_tonnes

\* (variant: the credit does not wait for add_block to return)
ingest_issue_early ==
  /\ ipc = "add_block"
  /\ issue(EntryUser(entry), EntryAmount(entry))
  /\ ipc' = "loop"
  /\ credited' = credited + 1
  /\ UNCHANGED <<entry, submitted, ledgerVars>>

ingest_issue ==
  /\ ipc = "add_block"
  /\ pc[Main] = "idle"
  /\ issue(EntryUser(entry), EntryAmount(entry))
  /\ ipc' = "loop"
  /\ credited' = credited + 1
  /\ UNCHANGED <<entry, submitted, ledgerVars>>

\* ------------------------------------------------------------------------
\* Initial state: token_system = BlueCarbonToken(); carbon_chain = Blockchain()
\* ------------------------------------------------------------------------
Init ==
  /\ nonce_weight \in NonceWeights
  /\ chain \in {create_genesis_block(<<>>, now) : now \in Times}
  /\ pc = [t \in Threads |-> "idle"]
  /\ new_block = [t \in Threads |-> NoBlock]
  /\ computed_hash = [t \in Threads |-> <<>>]
  /\ overlapped = FALSE
  /\ balances = <<>>
  /\ total_supply = 0
  /\ call = NoCall
  /\ ipc = "loop"
  /\ entry = GenesisData
  /\ submitted = <<>>
  /\ credited = 0

\* ------------------------------------------------------------------------
\* Specifications
\* ------------------------------------------------------------------------
\* The script: the ingestion loop over project records.
IngestAddBlock == \E e \in sample_data, now \in Times : ingest_add_block(e, now)

IngestMine ==
  /\ ipc = "add_block"
  /\ proof_of_work_step(Main)
  /\ UNCHANGED <<tokenVars, ingestVars>>

IngestAppend ==
  /\ ipc = "add_block"
  /\ add_block_append(Main)
  /\ UNCHANGED <<tokenVars, ingestVars>>

Next == IngestAddBlock \/ IngestMine \/ IngestAppend \/ ingest_issue

Spec == Init /\ [][Next]_vars

\* The script as the interpreter runs it: the statement that is next is
\* eventually executed.
SpecFair ==
  /\ Spec
  /\ WF_vars(IngestMine)
  /\ WF_vars(IngestAppend)
  /\ WF_vars(ingest_issue)

\* The Blockchain class driven by sequential add_block calls.
AddBlockCall ==
  /\ \E d \in sample_data, now \in Times : add_block_call(Main, d, now)
  /\ UNCHANGED <<tokenVars, ingestVars>>

AddBlockMine ==
  /\ proof_of_work_step(Main)
  /\ UNCHANGED <<tokenVars, ingestVars>>

AddBlockAppend ==
  /\ add_block_append(Main)
  /\ UNCHANGED <<tokenVars, ingestVars>>

NextChain == AddBlockCall \/ AddBlockMine \/ AddBlockAppend

SpecChain == Init /\ [][NextChain]_vars

\* The same under the scheduling of a single blocking thread: a call that
\* can take its next step takes it. The digest is the one for which blocks
\* with and blocks without a qualifying nonce both exist.
InitLossy == Init /\ nonce_weight = 32

SpecChainFair ==
  /\ InitLossy
  /\ [][NextChain]_vars
  /\ WF_vars(AddBlockMine)
  /\ WF_vars(AddBlockAppend)

\* The BlueCarbonToken class driven by arbitrary issue and transfer calls,
\* kept within the bounds of the model.
InRange(bal, supply) ==
  /\ \A u \in DOMAIN bal : bal[u] >= -MaxDebt /\ bal[u] <= MaxBalance
  /\ supply >= -MaxSupply
  /\ supply <= MaxSupply

IssueCall ==
  /\ \E u \in users, a \in IssueAmounts : issue(u, a)
  /\ InRange(balances', total_supply')
  /\ UNCHANGED <<ledgerVars, ingestVars>>

TransferCall ==
  /\ \E s \in users, r \in users, a \in TransferAmounts : transfer(s, r, a)
  /\ InRange(balances', total_supply')
  /\ UNCHANGED <<ledgerVars, ingestVars>>

NextToken == IssueCall \/ TransferCall

\* For the token class the ledger is only a bystander: one genesis time and
\* one digest.
InitToken == Init /\ chain[1].timestamp = 0 /\ nonce_weight = 1

SpecToken == InitToken /\ [][NextToken]_vars

\* The same with issue called as the specification assumes: amount >= 0.
IssueNonNegCall ==
  /\ \E u \in users, a \in {x \in IssueAmounts : x >= 0} : issue(u, a)
  /\ InRange(balances', total_supply')
  /\ UNCHANGED <<ledgerVars, ingestVars>>

NextTokenNonNeg == IssueNonNegCall \/ TransferCall

SpecTokenNonNeg == InitToken /\ [][NextTokenNonNeg]_vars

\* The two classes side by side: add_block calls interleaved with issue and
\* transfer calls, each side driven with one input value.
OneRecord ==
  CHOOSE r \in sample_data : r.project_name = "Mangrove Restoration"

OneAmount == 30

InitBoth == InitLossy /\ chain[1].timestamp = 0

BothAddBlockCall ==
  /\ add_block_call(Main, OneRecord, 0)
  /\ UNCHANGED <<tokenVars, ingestVars>>

BothIssueCall ==
  /\ \E u \in users : issue(u, OneAmount)
  /\ InRange(balances', total_supply')
  /\ UNCHANGED <<ledgerVars, ingestVars>>

BothTransferCall ==
  /\ \E s \in users, r \in users : transfer(s, r, OneAmount)
  /\ InRange(balances', total_supply')
  /\ UNCHANGED <<ledgerVars, ingestVars>>

NextBoth ==
  \/ BothAddBlockCall
  \/ AddBlockMine
  \/ AddBlockAppend
  \/ BothIssueCall
  \/ BothTransferCall

SpecBoth == InitBoth /\ [][NextBoth]_vars

\* The Blockchain class with add_block called from two threads without
\* mutual exclusion: the statements of the two calls interleave freely.
InitConcurrent == InitLossy /\ chain[1].timestamp = 0

InProgress == Cardinality({t \in Threads : pc[t] = "mining"})

ConcurrentCall ==
  /\ Len(chain) + InProgress <= MaxBlocks
  /\ \E t \in Threads, d \in sample_data : add_block_call(t, d, 0)
  /\ UNCHANGED <<tokenVars, ingestVars>>

ConcurrentMine ==
  /\ \E t \in Threads : proof_of_work_step(t)
  /\ UNCHANGED <<tokenVars, ingestVars>>

ConcurrentAppend ==
  /\ \E t \in Threads : add_block_append(t)
  /\ UNCHANGED <<tokenVars, ingestVars>>

NextConcurrent == ConcurrentCall \/ ConcurrentMine \/ ConcurrentAppend

SpecConcurrent == InitConcurrent /\ [][NextConcurrent]_vars

TypeOK ==
  /\ Len(chain) >= 1
  /\ \A t \in Threads : pc[t] \in {"idle", "mining"}
  /\ DOMAIN balances \subseteq users
  /\ ipc \in {"loop", "add_block"}

\* ------------------------------------------------------------------------
\* Properties of the ledger
\* ------------------------------------------------------------------------
\* C1: in every reachable state of a Blockchain, every block after the first
\* carries the hash of its predecessor as previous_hash and the predecessor's
\* index plus one as index.
C1_ChainLinked ==
  \A i \in 2..Len(chain) :
    /\ chain[i].previous_hash = chain[i - 1].hash
    /\ chain[i].index = chain[i - 1].index + 1

\* Two add_block calls have completed; the last block follows a mined block.
C1_Witness ==
  /\ Len(chain) >= 3
  /\ pc[Main] = "idle"
  /\ chain[3].previous_hash = chain[2].hash
  /\ chain[2].hash # chain[1].hash

\* C2: every block stored in chain has a hash equal to the digest of its
\* current index, timestamp, data, previous_hash and nonce; the hash stored
\* by add_block is the digest at the nonce mining ended with.
C2_HashIsDigest ==
  \A i \in 1..Len(chain) : chain[i].hash = compute_hash(chain[i])

\* A stored block whose mining moved the nonce, so that its hash differs
\* from the digest computed at construction.
C2_Witness ==
  \E i \in 2..Len(chain) :
    /\ chain[i].nonce > 0
    /\ chain[i].hash # compute_hash([chain[i] EXCEPT !.nonce = 0])

\* The first `difficulty` characters of a hex string are all '0'.
HasZeroPrefix(h) ==
  /\ Len(h) >= difficulty
  /\ SubSeq(h, 1, difficulty) = [i \in 1..difficulty |-> 0]

\* C3: in every reachable state, also while a block is being mined, every
\* block of chain but the genesis block has a hash with `difficulty`
\* leading zeros.
C3_ChainMeetsTarget ==
  \A i \in 2..Len(chain) : HasZeroPrefix(chain[i].hash)

\* A mined block is in chain while the next one is being mined and its
\* current digest misses the target.
C3_Witness ==
  /\ Len(chain) >= 2
  /\ pc[Main] = "mining"
  /\ new_block[Main].nonce > 0
  /\ ~HasZeroPrefix(computed_hash[Main])
  /\ ~HasZeroPrefix(new_block[Main].hash)

\* ------------------------------------------------------------------------
\* Properties of the token system
\* ------------------------------------------------------------------------
\* C4: after any sequence of issue and transfer calls, with any users
\* (sender = receiver included) and any amounts, total_supply is the sum of
\* the values of balances.
C4_SupplyIsSum == total_supply = SumValues(balances)

\* A transfer of a non-zero amount from a user to itself has succeeded.
C4_Witness ==
  /\ call.op = "transfer"
  /\ call.user = call.receiver
  /\ call.amount # 0
  /\ call.result = "True"
  /\ total_supply > 0

\* C5: a transfer called when the sender's balance (0 without an entry) is
\* below the amount returns False and changes nothing: balances keeps its
\* entries and values, no entry is created, total_supply is unchanged.
C5_RefusedTransferIsNoOp ==
  [][ (call'.op = "transfer" /\ Get(balances, call'.user) < call'.amount)
      => /\ call'.result = "False"
         /\ balances' = balances
         /\ total_supply' = total_supply ]_vars

\* A transfer was refused whose sender and receiver both have no entry.
C5_Witness ==
  /\ call.op = "transfer"
  /\ call.result = "False"
  /\ call.user # call.receiver
  /\ call.user \notin DOMAIN balances
  /\ call.receiver \notin DOMAIN balances
  /\ DOMAIN balances # {}

\* C6: a transfer called when the sender's balance (as the test reads it:
\* 0 without an entry) is at least the amount returns True, takes the amount
\* from the sender and gives it to the receiver, whose entry exists
\* afterwards (for sender = receiver the debit and the credit cancel),
\* leaves every other user's entry alone and leaves total_supply unchanged.
C6_GrantedTransferMoves ==
  [][ (call'.op = "transfer" /\ Get(balances, call'.user) >= call'.amount)
      => LET s == call'.user
             r == call'.receiver
             a == call'.amount
         IN /\ call'.result = "True"
            /\ r \in DOMAIN balances'
            /\ IF s = r
                 THEN Get(balances', s) = Get(balances, s)
                 ELSE /\ Get(balances', s) = Get(balances, s) - a
                      /\ Get(balances', r) = Get(balances, r) + a
            /\ \A u \in users \ {s, r} :
                 /\ u \in DOMAIN balances' <=> u \in DOMAIN balances
                 /\ Get(balances', u) = Get(balances, u)
            /\ total_supply' = total_supply ]_vars

\* C7: with issue called with non-negative amounts only and transfer with
\* any integer amount, every value of balances is non-negative.
C7_BalancesNonNegative == \A u \in DOMAIN balances : balances[u] >= 0

\* C8: issue always succeeds; it adds the amount to the user's balance
\* (counted from 0, the entry being created when absent), adds the amount to
\* total_supply and leaves every other user's entry alone.
C8_IssueCredits ==
  [][ call'.op = "issue"
      => LET u == call'.user
             a == call'.amount
         IN /\ call'.result = "None"
            /\ u \in DOMAIN balances'
            /\ balances'[u] = Get(balances, u) + a
            /\ total_supply' = total_supply + a
            /\ \A v \in users \ {u} :
                 /\ v \in DOMAIN balances' <=> v \in DOMAIN balances
                 /\ Get(balances', v) = Get(balances, v) ]_vars

\* issue 50 and 30 to NGO_1 and 30 to Community_1: 80, 30 and a supply of 110.
C8_Witness ==
  /\ call.op = "issue"
  /\ call.user = "Community_1"
  /\ call.amount = 30
  /\ DOMAIN balances = {"NGO_1", "Community_1"}
  /\ balances["NGO_1"] = 80
  /\ balances["Community_1"] = 30
  /\ total_supply = 110

\* ------------------------------------------------------------------------
\* Properties of the ingestion loop and of construction
\* ------------------------------------------------------------------------
\* Sum of CO2_absorbed_tonnes over the blocks of c after the genesis block
\* whose payload is in the set of records rs.
RECURSIVE SumCO2(_, _)
SumCO2(c, rs) ==
  IF Len(c) <= 1 THEN 0
  ELSE (IF c[Len(c)].data \in rs THEN c[Len(c)].data.CO2_absorbed_tonnes ELSE 0)
       + SumCO2(SubSeq(c, 1, Len(c) - 1), rs)

SubmittedBy(u) == {r \in sample_data : r.submitted_by = u}

\* C9: between two iterations of the ingestion loop (no transfers), each
\* user's balance is the sum of CO2_absorbed_tonnes over the non-genesis
\* blocks submitted by that user, total_supply is the sum over all
\* non-genesis blocks, and the non-genesis blocks carry the ingested
\* records, one each, in submission order.
C9_BalancesFollowChain ==
  ipc = "loop" =>
    /\ \A u \in users : Get(balances, u) = SumCO2(chain, SubmittedBy(u))
    /\ \A u \in DOMAIN balances : SubmittedBy(u) # {}
    /\ total_supply = SumCO2(chain, sample_data)
    /\ Len(chain) - 1 = Len(submitted)
    /\ credited = Len(submitted)
    /\ \A i \in 1..Len(submitted) : chain[i + 1].data = submitted[i]

\* Two different records of one submitter and one of another are possible;
\* here two different records of the same submitter have been ingested.
C9_Witness ==
  /\ ipc = "loop"
  /\ Len(chain) >= 3
  /\ chain[2].data # chain[3].data
  /\ chain[2].data.submitted_by = chain[3].data.submitted_by
  /\ balances[chain[2].data.submitted_by] = 70

\* The genesis block: index 0, previous_hash "0", payload "Genesis Block",
\* nonce 0, and the digest of these as its hash.
IsGenesis(b) ==
  /\ b.index = 0
  /\ b.previous_hash = <<0>>
  /\ b.data = [text |-> "Genesis Block"]
  /\ b.nonce = 0
  /\ b.hash = compute_hash([b EXCEPT !.nonce = 0])

\* C10: right after construction chain holds exactly the genesis block;
\* in every later state chain is non-empty (last_block is defined), its
\* first block is a genesis block, and that first block never changes.
C10_Genesis ==
  /\ Len(chain) = 1
  /\ IsGenesis(chain[1])
  /\ [](Len(chain) >= 1 /\ IsGenesis(chain[1]))
  /\ [][chain'[1] = chain[1]]_vars

\* Two blocks have been appended after a genesis block whose hash does not
\* meet the difficulty target.
C10_Witness ==
  /\ Len(chain) >= 3
  /\ IsGenesis(chain[1])
  /\ ~HasZeroPrefix(chain[1].hash)
  /\ last_block(chain).index = 2

\* ------------------------------------------------------------------------
\* Frame, termination and ordering properties
\* ------------------------------------------------------------------------
\* C11: the ledger is append-only. Every step keeps the blocks already in
\* chain, with all their fields, at their positions; a completed add_block
\* adds exactly the mined block at the end; a mining step leaves chain
\* alone and changes nothing but the nonce of the block not yet appended.
C11_AppendOnly ==
  [][ /\ Len(chain') >= Len(chain)
      /\ Len(chain') <= Len(chain) + 1
      /\ SubSeq(chain', 1, Len(chain)) = chain
      /\ \A t \in Threads :
           /\ (pc[t] = "mining" /\ pc'[t] = "idle")
                => /\ Len(chain') = Len(chain) + 1
                   /\ chain'[Len(chain')] =
                        [new_block[t] EXCEPT !.hash = computed_hash[t]]
           /\ (pc[t] = "mining" /\ pc'[t] = "mining")
                => /\ chain' = chain
                   /\ [new_block'[t] EXCEPT !.nonce = new_block[t].nonce]
                        = new_block[t]
           /\ (pc[t] = "idle" /\ pc'[t] = "mining") => chain' = chain ]_vars

\* A mined block has been appended and the next one is being mined, its
\* nonce already moved.
C11_Witness ==
  /\ Len(chain) >= 2
  /\ pc[Main] = "mining"
  /\ new_block[Main].nonce > 0
  /\ chain[2].nonce > 0

\* C12: transfer never raises; whatever the sender (with or without an
\* entry), the receiver and the amount (0 included), it returns True or
\* False, and it returns False only for insufficient funds.
C12_TransferReturns ==
  [][ call'.op = "transfer"
      => /\ call'.result \in {"True", "False"}
         /\ call'.result = "False"
              => Get(balances, call'.user) < call'.amount ]_vars

\* The digest of the model repeats in the nonce with this period, so a
\* block has a nonce meeting the target iff it has one below the period.
NoncePeriod == HashSpace \div nonce_weight

SomeNonceMeetsTarget(b) ==
  \E n \in 0..(NoncePeriod - 1) :
    HasZeroPrefix(compute_hash([b EXCEPT !.nonce = n]))

\* C13: an add_block call whose block has some nonce >= 0 meeting the
\* difficulty target eventually returns with the block appended; a call
\* whose block has no such nonce never returns and never changes chain.
C13_Termination ==
  /\ (pc[Main] = "mining" /\ SomeNonceMeetsTarget(new_block[Main]))
       ~> (pc[Main] = "idle")
  /\ [][ pc[Main] = "mining"
          => \/ pc'[Main] = "mining" /\ chain' = chain
             \/ /\ pc'[Main] = "idle"
                /\ Len(chain') = Len(chain) + 1
                /\ last_block(chain').data = new_block[Main].data
                /\ SomeNonceMeetsTarget(new_block[Main]) ]_vars
  /\ [](pc[Main] = "mining"
          => compute_hash([new_block[Main] EXCEPT !.nonce = @ + NoncePeriod])
               = compute_hash(new_block[Main]))

\* After a mined block was appended, a block without any qualifying nonce
\* is being mined and the search has gone through a whole period.
C13_Witness ==
  /\ Len(chain) >= 2
  /\ chain[2].nonce > 0
  /\ pc[Main] = "mining"
  /\ ~SomeNonceMeetsTarget(new_block[Main])
  /\ new_block[Main].nonce >= NoncePeriod

\* The digest of block b with its nonce replaced by n.
DigestAt(b, n) == compute_hash([b EXCEPT !.nonce = n])

\* C15: proof_of_work starts the search at nonce 0 and tests 0, 1, 2, ...
\* in this order without skipping a value: a nonce is left only after its
\* digest has missed the target, and for the next one. When the search
\* ends, the nonce of the appended block is the least non-negative integer
\* whose digest meets the target and the stored hash is the digest at that
\* nonce.
C15_LeastNonce ==
  [][ /\ (pc[Main] = "idle" /\ pc'[Main] = "mining")
           => /\ new_block'[Main].nonce = 0
              /\ computed_hash'[Main] = DigestAt(new_block'[Main], 0)
      /\ (pc[Main] = "mining" /\ pc'[Main] = "mining")
           => /\ ~HasZeroPrefix(DigestAt(new_block[Main], new_block[Main].nonce))
              /\ new_block'[Main].nonce = new_block[Main].nonce + 1
              /\ computed_hash'[Main]
                   = DigestAt(new_block'[Main], new_block'[Main].nonce)
      /\ (pc[Main] = "mining" /\ pc'[Main] = "idle")
           => LET b == last_block(chain')
              IN /\ b.nonce = new_block[Main].nonce
                 /\ b.nonce >= 0
                 /\ b.hash = DigestAt(b, b.nonce)
                 /\ HasZeroPrefix(b.hash)
                 /\ \A n \in 0..(b.nonce - 1) : ~HasZeroPrefix(DigestAt(b, n))
    ]_vars

\* The chain holds a block whose nonce-0 digest met the target, so that its
\* nonce stayed 0, and a block that needed a longer search.
C15_Witness ==
  /\ pc[Main] = "idle"
  /\ \E i \in 2..Len(chain) : chain[i].nonce = 0
  /\ \E i \in 2..Len(chain) : chain[i].nonce > 1

\* C16: ingestion appends, then credits, and the two are not atomic. The
\* number of issues is the number of non-genesis blocks or one less; an
\* issue happens only when its record's block is already the last block of
\* chain, for that payload's submitted_by and CO2_absorbed_tonnes; and every
\* appended block is eventually followed by that issue.
C16_AppendThenCredit ==
  /\ [](credited = Len(chain) - 1 \/ credited = Len(chain) - 2)
  /\ [][ credited' # credited
          => /\ credited' = credited + 1
             /\ chain' = chain
             /\ Len(chain) - 1 = credited'
             /\ call'.op = "issue"
             /\ call'.user = last_block(chain).data.submitted_by
             /\ call'.amount = last_block(chain).data.CO2_absorbed_tonnes
             /\ Get(balances', call'.user)
                  = Get(balances, call'.user) + call'.amount ]_vars
  /\ \A k \in 1..MaxBlocks :
       (Len(chain) = k + 1 /\ credited = k - 1)
       ~> /\ credited = k
          /\ call.op = "issue"
          /\ call.user = chain[k + 1].data.submitted_by
          /\ call.amount = chain[k + 1].data.CO2_absorbed_tonnes

\* The second record's block has been appended and its tokens have not been
\* issued yet.
C16_Witness ==
  /\ ipc = "add_block"
  /\ pc[Main] = "idle"
  /\ Len(chain) = 3
  /\ credited = 1
  /\ total_supply = chain[2].data.CO2_absorbed_tonnes

\* C17: the ledger and the token system are independent. A step of
\* add_block, mining steps included, leaves balances and total_supply
\* alone; a step of issue or transfer leaves chain, every block and the
\* call in progress alone; total_supply changes only in an issue, by the
\* issued amount.
C17_Independent ==
  [][ /\ <<chain, pc, new_block, computed_hash>>'
           # <<chain, pc, new_block, computed_hash>>
           => /\ balances' = balances
              /\ total_supply' = total_supply
              /\ call' = call
      /\ <<balances, total_supply, call>>' # <<balances, total_supply, call>>
           => /\ chain' = chain
              /\ new_block' = new_block
              /\ computed_hash' = computed_hash
              /\ pc' = pc
      /\ total_supply' # total_supply
           => /\ call'.op = "issue"
              /\ total_supply' = total_supply + call'.amount
      /\ (call'.op = "transfer" /\ balances' # balances)
           => total_supply' = total_supply ]_vars

\* A transfer has moved tokens while a block was being mined behind an
\* already appended one.
C17_Witness ==
  /\ call.op = "transfer"
  /\ call.result = "True"
  /\ call.user # call.receiver
  /\ total_supply > 0
  /\ Len(chain) >= 2
  /\ pc[Main] = "mining"
  /\ new_block[Main].nonce > 0

\* ------------------------------------------------------------------------
\* Index and concurrency properties
\* ------------------------------------------------------------------------
\* C19: with add_block used sequentially, the index of every block is its
\* position in chain (counted from 0), so no two blocks share an index, and
\* the length of chain is 1 plus the number of completed add_block calls.
C19_IndexIsPosition ==
  /\ \A i \in 1..Len(chain) : chain[i].index = i - 1
  /\ \A i, j \in 1..Len(chain) : i # j => chain[i].index # chain[j].index
  /\ Len(chain) = 1 + Len(submitted) - (IF pc[Main] = "mining" THEN 1 ELSE 0)

\* One call has completed and a second one is in progress.
C19_Witness ==
  /\ Len(chain) = 2
  /\ Len(submitted) = 2
  /\ pc[Main] = "mining"
  /\ new_block[Main].index = 2
  /\ new_block[Main].nonce > 0

\* Every block after the first is linked to its predecessor.
Linked(c) ==
  \A i \in 2..Len(c) :
    /\ c[i].previous_hash = c[i - 1].hash
    /\ c[i].index = c[i - 1].index + 1

\* Two blocks with the same index and the same previous_hash.
Twins(a, b) == a.index = b.index /\ a.previous_hash = b.previous_hash

HasTwins(c) == \E i, j \in 2..Len(c) : i < j /\ Twins(c[i], c[j])

\* The block a call is mining was built on the block that is last now.
BuiltOnLast(b, c) ==
  /\ b.previous_hash = last_block(c).hash
  /\ b.index = last_block(c).index + 1

\* C18: without serialization the ledger invariants break. When a call
\* appends a block that was built on a block that is no longer the last
\* one (another call has read the same last_block and appended first), the
\* chain afterwards holds two blocks with the same index and previous_hash
\* and is no longer linked; this needs two calls in progress at once. As
\* long as every call completes before the next one starts, the chain is
\* linked and every index is the block's position.
C18_Serialization ==
  /\ [][ \A t \in Threads :
           (pc[t] = "mining" /\ pc'[t] = "idle")
           => IF BuiltOnLast(new_block[t], chain)
                THEN Linked(chain) => Linked(chain')
                ELSE /\ overlapped
                     /\ HasTwins(chain')
                     /\ ~Linked(chain')
                     /\ Linked(chain)
                          => \E j \in 2..Len(chain) :
                               Twins(chain[j], last_block(chain')) ]_vars
  /\ [](~overlapped
          => /\ Linked(chain)
             /\ \A i \in 1..Len(chain) : chain[i].index = i - 1)

\* Both calls read the genesis block as last_block and both appended.
C18_Witness ==
  /\ overlapped
  /\ \A t \in Threads : pc[t] = "idle"
  /\ Len(chain) = 3
  /\ chain[2].index = 1
  /\ chain[3].index = 1
  /\ chain[2].previous_hash = chain[1].hash
  /\ chain[3].previous_hash = chain[1].hash
  /\ chain[2].data # chain[3].data
====
